---------------------------- MODULE Spec2Model ----------------------------
(***************************************************************************)
(* kubeface: the job orchestrator (kubeface/job.py) and the retrying       *)
(* bucket storage client (kubeface/bucket_storage.py).                     *)
(*                                                                         *)
(* Spec         one orchestrator thread running Job.wait() and             *)
(*              Job.results(), the workers the backend started, and the    *)
(*              object store; every storage call of the job is one step    *)
(*              whose outcome is the outcome of the robustified call.      *)
(* LiveSpec     Spec without failing storage calls and submissions, with   *)
(*              the fairness of the polling loop and of the workers.       *)
(* StorageSpec  a caller of the five robustified storage functions,        *)
(*              attempt by attempt.                                        *)
(* ShareSpec    two Jobs made with the same cache key, storage prefix      *)
(*              and task source, on one store and one backend, without     *)
(*              failing storage calls, with the fairness of LiveSpec.      *)
(*                                                                         *)
(* A url is a sequence of tokens: the scheme "gs://", the separator "/"    *)
(* and name segments.  File contents are sequences of bytes.               *)
(***************************************************************************)
EXTENDS Integers, Sequences, FiniteSets, TLC

\* ---------------------------------------------------------------- bounds
MaxTasks == 3
MaxSimul == 2
MaxRuns == 2
\* the tasks of the task source two Jobs share
MaxShareTasks == 2

\* ------------------------------------------------------ program constants
RETRIES_BEFORE_FAILURE == 12
FIRST_RETRY_SLEEP == 2
PickleTag == 128

Max(a, b) == IF a > b THEN a ELSE b

RECURSIVE Pow(_, _)
Pow(b, n) == IF n = 0 THEN 1 ELSE b * Pow(b, n - 1)

Range(s) == {s[i] : i \in DOMAIN s}

IsPrefix(p, s) == Len(p) <= Len(s) /\ SubSeq(s, 1, Len(p)) = p

\* ------------------------------------------------------------ the store
\* An object of the store is <<bucket, name>>; the store maps the objects
\* that exist to their bytes.
EmptyStore == [o \in {} |-> <<>>]

StoreInsert(s, o, c) == [x \in DOMAIN s \cup {o} |-> IF x = o THEN c ELSE s[x]]

StoreRemove(s, o) == [x \in DOMAIN s \ {o} |-> s[x]]

\* ------------------------------------------------ bucket_storage.py (pure)
\* url.startswith("gs://")
IsGsUrl(url) == Len(url) >= 1 /\ url[1] = "gs://"

\* Position of the first "/" token of s, 0 when there is none.
RECURSIVE FirstSlash(_, _)
FirstSlash(s, i) ==
    IF i > Len(s) THEN 0
    ELSE IF s[i] = "/" THEN i
    ELSE FirstSlash(s, i + 1)

\* url[len("gs://"):].split("/", 1): one part (no "/") or two.
split_bucket_and_name(url) ==
    IF ~IsGsUrl(url) THEN [ok |-> FALSE, parts |-> <<>>]
    ELSE LET rest == Tail(url)
             k == FirstSlash(rest, 1)
         IN IF k = 0 THEN [ok |-> TRUE, parts |-> <<rest>>]
            ELSE [ok |-> TRUE,
                  parts |-> <<SubSeq(rest, 1, k - 1),
                              SubSeq(rest, k + 1, Len(rest))>>]

\* (bucket_name, file_name) = split_bucket_and_name(name): the unpacking
\* raises unless there are exactly two parts.
UnpacksToTwo(url) ==
    LET sp == split_bucket_and_name(url) IN sp.ok /\ Len(sp.parts) = 2

ObjectOf(url) ==
    LET sp == split_bucket_and_name(url) IN <<sp.parts[1], sp.parts[2]>>

\* list_contents matching whole names: prefix= taken for a name.
ListBody_WholeName(s, prefix) ==
    LET sp == split_bucket_and_name(prefix)
        bucket == sp.parts[1]
        file_name_prefix == IF Len(sp.parts) = 1 THEN <<>> ELSE sp.parts[2]
    IN {o[2] : o \in {x \in DOMAIN s : x[1] = bucket /\ x[2] = file_name_prefix}}

\* list_contents: the names of the bucket's objects under the name prefix.
ListBody(s, prefix) ==
    LET sp == split_bucket_and_name(prefix)
        bucket == sp.parts[1]
        file_name_prefix == IF Len(sp.parts) = 1 THEN <<>> ELSE sp.parts[2]
    IN {o[2] : o \in {x \in DOMAIN s : x[1] = bucket /\ IsPrefix(file_name_prefix, x[2])}}

\* What MediaIoBaseUpload sends: the handle's bytes from its position on.
Upload(data, pos) == SubSeq(data, pos + 1, Len(data))

\* put without its seek: the upload starts where the attempt before stopped.
PutSeek_None(pos) == pos

\* input_handle.seek(0) at the start of every attempt of put.
PutSeek(pos) == 0

\* put: seek, then insert the object.
PutBody(s, url, data, pos) == StoreInsert(s, ObjectOf(url), Upload(data, PutSeek(pos)))

\* get: the object's bytes in a fresh handle.
GetBody(s, url) == s[ObjectOf(url)]

\* A delete that leaves the object where it is.
DeleteBody_Keeps(s, url) == s

\* delete: remove the object.
DeleteBody(s, url) == StoreRemove(s, ObjectOf(url))

\* move, first request: rewrite the source object to destinationObject in
\* destinationBucket = bucket_name, the SOURCE's bucket.
MoveRewrite(s, source, dest) ==
    StoreInsert(s, <<ObjectOf(source)[1], ObjectOf(dest)[2]>>, s[ObjectOf(source)])

\* move, second request: delete the source object.
MoveDelete(s, source) == StoreRemove(s, ObjectOf(source))

\* Whether an attempt of the function can run to its return at all: the url
\* parses (and unpacks), and the object a request names exists (a request for
\* a missing object is answered 404, which the client raises).
CanSucceed(op, s, url, url2) ==
    CASE op = "list_contents" -> split_bucket_and_name(url).ok
      [] op = "put" -> UnpacksToTwo(url)
      [] op = "get" -> UnpacksToTwo(url) /\ ObjectOf(url) \in DOMAIN s
      [] op = "delete" -> UnpacksToTwo(url) /\ ObjectOf(url) \in DOMAIN s
      [] op = "move" -> UnpacksToTwo(url) /\ UnpacksToTwo(url2)
                        /\ ObjectOf(url) \in DOMAIN s
      [] OTHER -> FALSE

\* robustify giving up at the RETRIES_BEFORE_FAILURE-th failure (>= for >).
GiveUp_AtBudget(error_num) == error_num >= RETRIES_BEFORE_FAILURE

\* robustify: "if error_num > RETRIES_BEFORE_FAILURE: raise", error_num
\* being the count of failures including the one just caught.
GiveUp(error_num) == error_num > RETRIES_BEFORE_FAILURE

\* A linear backoff: FIRST_RETRY_SLEEP * error_num.
SleepTime_Linear(error_num) == FIRST_RETRY_SLEEP * error_num

\* sleep_time = FIRST_RETRY_SLEEP ** error_num
SleepTime(error_num) == Pow(FIRST_RETRY_SLEEP, error_num)


\* ------------------------------------------------------------- the state
VARIABLES
    \* Job (job.py, Job.__init__)
    cache_key, cleanup, max_simultaneous_tasks, tasks_iter,
    submitted_tasks, reused_tasks,
    \* the orchestrator's position in wait() and wait()'s locals
    pc, completed_tasks, running_tasks, tasks_to_submit, err,
    \* the generator results() returned: its position and what it yielded
    rpc, ridx, yielded,
    \* the world: the object store, the workers the backend started and
    \* that have not finished, the number of Job instances made so far
    store, workers, run,
    \* history: the tasks pulled from tasks_iter, the Backend.submit_task
    \* calls and the input uploads of this Job, the last listing wait()
    \* took, the real submissions since the last poll and in the batch before
    \* it, the task names that had a result object when the Job was made
    pulled_tasks, handed, uploaded, last_listing, batch, prev_batch, preexisting,
    \* the robustified storage call a direct caller has in flight
    call,
    \* a second Job made with the same arguments, run by another process
    peer

jobVars == <<cache_key, cleanup, max_simultaneous_tasks, tasks_iter,
             submitted_tasks, reused_tasks, pc, completed_tasks, running_tasks,
             tasks_to_submit, err, rpc, ridx, yielded, workers, run,
             pulled_tasks, handed, uploaded, last_listing, batch, prev_batch,
             preexisting, peer>>

vars == <<jobVars, store, call>>

\* ------------------------------------------- the direct storage caller
ClientUrls ==
    { <<"gs://", "bkt", "/", "a">>,
      <<"gs://", "bkt", "/", "b">>,
      <<"gs://", "bkt">>,
      <<"bkt", "/", "a">> }

ClientData == { <<1, 2>>, <<3>> }

\* Destinations of move: the urls above and two in a second bucket.
MoveDests ==
    ClientUrls \cup { <<"gs://", "alt", "/", "a">>, <<"gs://", "alt", "/", "b">> }

NoCall ==
    [op |-> "none", url |-> <<>>, url2 |-> <<>>, data |-> <<>>, pos |-> 0,
     error_num |-> 0, attempts |-> 0, slept |-> 0, phase |-> "idle",
     result |-> <<>>, orig |-> <<>>, written |-> EmptyStore]

\* The bytes of the object a url names, <<>> when there is none.
BytesAt(s, url) ==
    IF UnpacksToTwo(url) /\ ObjectOf(url) \in DOMAIN s THEN s[ObjectOf(url)] ELSE <<>>

\* w without the objects objs.
Forget(w, objs) == [x \in DOMAIN w \ objs |-> w[x]]

\* The object an attempt of move writes.
MoveTarget(source, dest) == <<ObjectOf(source)[1], ObjectOf(dest)[2]>>

\* robust_function(*args): error_num = 0, before the first attempt.  orig is
\* what the first url held when the call began; written, kept from call to
\* call, maps each object whose last completed operation is a put to the
\* bytes that were put.
CallBegin(op, url, url2, data) ==
    /\ call.phase # "running"
    /\ call' = [NoCall EXCEPT !.op = op, !.url = url, !.url2 = url2,
                              !.data = data, !.phase = "running",
                              !.orig = BytesAt(store, url),
                              !.written = call.written]
    /\ UNCHANGED <<jobVars, store>>

BeginList == \E u \in ClientUrls : CallBegin("list_contents", u, <<>>, <<>>)

BeginPut == \E u \in ClientUrls, d \in ClientData : CallBegin("put", u, <<>>, d)

BeginGet == \E u \in ClientUrls : CallBegin("get", u, <<>>, <<>>)

BeginDelete == \E u \in ClientUrls : CallBegin("delete", u, <<>>, <<>>)

BeginMove == \E u \in ClientUrls, u2 \in MoveDests : CallBegin("move", u, u2, <<>>)

\* "return function(*args, **kwargs)": the attempt runs to its end.
AttemptReturns ==
    /\ call.phase = "running"
    /\ CanSucceed(call.op, store, call.url, call.url2)
    /\ store' = CASE call.op = "put" -> PutBody(store, call.url, call.data, call.pos)
                  [] call.op = "delete" -> DeleteBody(store, call.url)
                  [] call.op = "move" ->
                        MoveDelete(MoveRewrite(store, call.url, call.url2), call.url)
                  [] OTHER -> store
    /\ call' = [call EXCEPT
                  !.attempts = @ + 1,
                  !.phase = "returned",
                  !.pos = IF call.op = "put" THEN Len(call.data) ELSE @,
                  !.written =
                      CASE call.op = "put" ->
                              StoreInsert(@, ObjectOf(call.url), call.data)
                        [] call.op = "delete" -> Forget(@, {ObjectOf(call.url)})
                        [] call.op = "move" ->
                              Forget(@, {ObjectOf(call.url), ObjectOf(call.url2),
                                         MoveTarget(call.url, call.url2)})
                        [] OTHER -> @,
                  !.result = CASE call.op = "list_contents" -> ListBody(store, call.url)
                               [] call.op = "get" -> GetBody(store, call.url)
                               [] OTHER -> <<>>]
    /\ UNCHANGED jobVars

\* The except clause of robust_function: count the failure, give up or sleep.
Except(c) ==
    LET e == c.error_num + 1 IN
    IF GiveUp(e)
    THEN [c EXCEPT !.error_num = e, !.attempts = @ + 1, !.phase = "raised"]
    ELSE [c EXCEPT !.error_num = e, !.attempts = @ + 1,
                   !.slept = @ + SleepTime(e)]

\* An attempt raises before it changed the store: the url does not parse or
\* unpack, the object is missing, or the request failed.  A put may have read
\* any part of its handle.
AttemptRaises ==
    /\ call.phase = "running"
    /\ \E p \in 0..Len(call.data) :
          call' = [Except(call) EXCEPT !.pos = IF call.op = "put" THEN p ELSE @]
    /\ UNCHANGED <<jobVars, store>>

\* An attempt of move raises in its second request: the copy is made, the
\* source is not deleted.
MoveRaisesAfterRewrite ==
    /\ call.phase = "running"
    /\ call.op = "move"
    /\ CanSucceed("move", store, call.url, call.url2)
    /\ store' = MoveRewrite(store, call.url, call.url2)
    /\ call' = [Except(call) EXCEPT
                  !.written = Forget(@, {MoveTarget(call.url, call.url2)})]
    /\ UNCHANGED jobVars

\* The process dies between the two requests of move: the copy is made, the
\* source is not deleted, and nothing runs after it.
MoveCrashesAfterRewrite ==
    /\ call.phase = "running"
    /\ call.op = "move"
    /\ CanSucceed("move", store, call.url, call.url2)
    /\ store' = MoveRewrite(store, call.url, call.url2)
    /\ call' = [call EXCEPT
                  !.attempts = @ + 1,
                  !.phase = "crashed",
                  !.written = Forget(@, {MoveTarget(call.url, call.url2)})]
    /\ UNCHANGED jobVars

StorageNext ==
    \/ BeginList
    \/ BeginPut
    \/ BeginGet
    \/ BeginDelete
    \/ BeginMove
    \/ AttemptReturns
    \/ AttemptRaises
    \/ MoveRaisesAfterRewrite
    \/ MoveCrashesAfterRewrite

\* ------------------------------------------------------ naming, payloads
CacheKeys == {"k1"}

\* str(index)
IndexToken(i) == <<"0", "1", "2", "3", "4", "5", "6", "7", "8", "9">>[i + 1]

make_task_name(key, index) == <<key, IndexToken(index)>>

task_input_name(task_name) == <<"input::">> \o task_name

task_result_name(task_name) == <<"result::">> \o task_name

task_result_prefix(key) == <<"result::", key>>

task_name_from_result_name(name) == Tail(name)

\* serialization.dump / serialization.load
dump(value) == <<PickleTag, value>>

load(bytes) == bytes[2]

\* The task source of a job of n tasks: the integers 0 .. n-1, in order.
TaskSource(n) == [i \in 1..n |-> i - 1]

\* What a worker computes from a task.
Compute(task) == 2 * task

\* ------------------------------------------------------------ job.py (pure)
storage_prefix == <<"gs://", "jobs">>

\* Job.storage_path
storage_path(filename) == storage_prefix \o <<"/">> \o filename

\* The index counting the real submissions only.
NextIndex_CountsRealOnly(submitted, reused) == Len(submitted) - Len(reused)

\* The index counted from 1: len(self.submitted_tasks) + 1.
NextIndex_FromOne(submitted, reused) == Len(submitted) + 1

\* submit_one_task: the index the task name is made from,
\* len(self.submitted_tasks).
NextIndex(submitted, reused) == Len(submitted)

\* The reuse test looking the task's input name up among the completed tasks.
IsReused_WrongName(task_name, completed) == task_input_name(task_name) \in completed

\* submit_one_task: "if task_name in completed_tasks".
IsReused(task_name, completed) == task_name \in completed

\* get_completed_tasks, given the listing.
CompletedOf(listing) == {task_name_from_result_name(x) : x \in listing}

\* The difference taken the wrong way round.
get_running_tasks_Reversed(submitted, completed) == completed \ Range(submitted)

\* get_running_tasks: set(self.submitted_tasks).difference(completed_tasks)
get_running_tasks(submitted, completed) == Range(submitted) \ completed

\* The slots not reduced by the running tasks.
TasksToSubmit_IgnoresRunning(max_simul, submitted, completed) == max_simul

\* The slots reduced by all the submitted tasks, completed or not.
TasksToSubmit_CountsSubmitted(max_simul, submitted, completed) ==
    Max(0, max_simul - Len(submitted))

\* wait: max(0, self.max_simultaneous_tasks - len(running_tasks))
TasksToSubmit(max_simul, submitted, completed) ==
    Max(0, max_simul - Cardinality(get_running_tasks(submitted, completed)))

\* results: "for task_name in self.submitted_tasks"
ResultsOrder(submitted) == submitted

\* The listing of everything under the storage prefix, inputs included.
JobListing_WholePrefix(s, key) == ListBody(s, storage_path(<<>>))

\* The listing get_completed_tasks asks for.
JobListing(s, key) == ListBody(s, storage_path(task_result_prefix(key)))

\* --------------------------------------------------------------- the job
JobInit(key, cl, m, n) ==
    /\ cache_key = key
    /\ cleanup = cl
    /\ max_simultaneous_tasks = m
    /\ tasks_iter = TaskSource(n)
    /\ submitted_tasks = <<>>
    /\ reused_tasks = <<>>
    /\ pc = "created"
    /\ completed_tasks = {}
    /\ running_tasks = {}
    /\ tasks_to_submit = 0
    /\ err = "none"
    /\ rpc = "none"
    /\ ridx = 0
    /\ yielded = <<>>
    /\ pulled_tasks = <<>>
    /\ handed = <<>>
    /\ uploaded = <<>>
    /\ last_listing = {}
    /\ batch = 0
    /\ prev_batch = 0

\* There is no second Job.
NoPeer ==
    [pc |-> "absent", submitted |-> <<>>, completed |-> {}, to_submit |-> 0,
     rpc |-> "none", ridx |-> 0, yielded |-> <<>>]

Init ==
    /\ \E key \in CacheKeys, cl \in BOOLEAN, m \in 1..MaxSimul, n \in 0..MaxTasks :
          JobInit(key, cl, m, n)
    /\ store = EmptyStore
    /\ workers = {}
    /\ run = 1
    /\ preexisting = {}
    /\ call = NoCall
    /\ peer = NoPeer

\* The job is run again: Job.__init__ with the same arguments (the same
\* cache key, a fresh iterator over the same tasks), the Job before it over
\* (returned or aborted); the store and the workers stay as they are.
NewJob ==
    /\ run < MaxRuns
    /\ pc \in {"done", "failed"}
    /\ tasks_iter' = pulled_tasks \o tasks_iter
    /\ preexisting' = CompletedOf(JobListing(store, cache_key))
    /\ submitted_tasks' = <<>>
    /\ reused_tasks' = <<>>
    /\ pc' = "created"
    /\ completed_tasks' = {}
    /\ running_tasks' = {}
    /\ tasks_to_submit' = 0
    /\ err' = "none"
    /\ rpc' = "none"
    /\ ridx' = 0
    /\ yielded' = <<>>
    /\ pulled_tasks' = <<>>
    /\ handed' = <<>>
    /\ uploaded' = <<>>
    /\ last_listing' = {}
    /\ batch' = 0
    /\ prev_batch' = 0
    /\ run' = run + 1
    /\ UNCHANGED <<cache_key, cleanup, max_simultaneous_tasks, store, workers, call, peer>>

jobConfig == <<cache_key, cleanup, max_simultaneous_tasks, run, preexisting>>

resultsVars == <<rpc, ridx, yielded>>

\* wait() is called; a generator of an earlier results() call is dropped.
StartWait ==
    /\ pc = "created"
    /\ rpc # "iter"
    /\ pc' = "poll"
    /\ rpc' = "none"
    /\ ridx' = 0
    /\ yielded' = <<>>
    /\ err' = "none"
    /\ UNCHANGED <<jobConfig, tasks_iter, submitted_tasks, reused_tasks,
                   completed_tasks, running_tasks, tasks_to_submit, store,
                   workers, pulled_tasks, handed, uploaded, last_listing, batch,
                   prev_batch, call, peer>>

\* The exception a storage call or the backend raised leaves wait().
Abort(error) ==
    /\ pc' = "failed"
    /\ err' = error

\* wait, the top of the outer loop: list, compute running_tasks and
\* tasks_to_submit; none to submit: sleep and poll again.
Poll ==
    /\ pc = "poll"
    /\ LET listing == JobListing(store, cache_key)
           completed == CompletedOf(listing)
           n == TasksToSubmit(max_simultaneous_tasks, submitted_tasks, completed)
       IN /\ completed_tasks' = completed
          /\ last_listing' = listing
          /\ running_tasks' = get_running_tasks(submitted_tasks, completed)
          /\ tasks_to_submit' = n
          /\ pc' = IF n = 0 THEN "poll" ELSE "submit"
    /\ prev_batch' = batch
    /\ batch' = 0
    /\ UNCHANGED <<jobConfig, resultsVars, tasks_iter, submitted_tasks, reused_tasks,
                   err, store, workers, pulled_tasks, handed, uploaded, call, peer>>

\* wait: list_contents raised after its retries.
PollRaises ==
    /\ pc = "poll"
    /\ Abort("StorageUnavailable")
    /\ UNCHANGED <<jobConfig, resultsVars, tasks_iter, submitted_tasks, reused_tasks,
                   completed_tasks, running_tasks, tasks_to_submit, store, workers,
                   pulled_tasks, handed, uploaded, last_listing, batch, prev_batch,
                   call, peer>>

\* After a submit_one_task that returned True: the next of the batch, or
\* (all() true) the top of the outer loop.
AfterSubmit ==
    /\ tasks_to_submit' = tasks_to_submit - 1
    /\ pc' = IF tasks_to_submit = 1 THEN "poll" ELSE "submit"

TaskName == make_task_name(cache_key, NextIndex(submitted_tasks, reused_tasks))

TaskInput == storage_path(task_input_name(TaskName))

TaskOutput == storage_path(task_result_name(TaskName))

\* submit_one_task: next(self.tasks_iter) raises StopIteration; all() is
\* false and wait goes to its inner loop.
SubmitExhausted ==
    /\ pc = "submit"
    /\ tasks_iter = <<>>
    /\ pc' = "drain"
    /\ UNCHANGED <<jobConfig, resultsVars, tasks_iter, submitted_tasks, reused_tasks,
                   completed_tasks, running_tasks, tasks_to_submit, err, store,
                   workers, pulled_tasks, handed, uploaded, last_listing, batch,
                   prev_batch, call, peer>>

\* submit_one_task: the task's result is listed: reuse it.
SubmitReused ==
    /\ pc = "submit"
    /\ tasks_iter # <<>>
    /\ IsReused(TaskName, completed_tasks)
    /\ tasks_iter' = Tail(tasks_iter)
    /\ pulled_tasks' = Append(pulled_tasks, Head(tasks_iter))
    /\ reused_tasks' = Append(reused_tasks, TaskName)
    /\ submitted_tasks' = Append(submitted_tasks, TaskName)
    /\ AfterSubmit
    /\ UNCHANGED <<jobConfig, resultsVars, completed_tasks, running_tasks, err, store,
                   workers, handed, uploaded, last_listing, batch, prev_batch, call, peer>>

\* submit_one_task: upload the input, hand the task to the backend, publish
\* the status (which lists the results), append.
SubmitReal ==
    /\ pc = "submit"
    /\ tasks_iter # <<>>
    /\ ~IsReused(TaskName, completed_tasks)
    /\ tasks_iter' = Tail(tasks_iter)
    /\ pulled_tasks' = Append(pulled_tasks, Head(tasks_iter))
    /\ store' = PutBody(store, TaskInput, dump(Head(tasks_iter)), 0)
    /\ uploaded' = Append(uploaded, TaskName)
    /\ workers' = workers \cup {<<TaskName, TaskInput, TaskOutput>>}
    /\ handed' = Append(handed, <<TaskName, TaskInput, TaskOutput>>)
    /\ submitted_tasks' = Append(submitted_tasks, TaskName)
    /\ batch' = batch + 1
    /\ AfterSubmit
    /\ UNCHANGED <<jobConfig, resultsVars, reused_tasks, completed_tasks, running_tasks,
                   err, last_listing, prev_batch, call, peer>>

\* submit_one_task: storage.put raised after its retries.
SubmitPutRaises ==
    /\ pc = "submit"
    /\ tasks_iter # <<>>
    /\ ~IsReused(TaskName, completed_tasks)
    /\ tasks_iter' = Tail(tasks_iter)
    /\ pulled_tasks' = Append(pulled_tasks, Head(tasks_iter))
    /\ Abort("StorageUnavailable")
    /\ UNCHANGED <<jobConfig, resultsVars, submitted_tasks, reused_tasks,
                   completed_tasks, running_tasks, tasks_to_submit, store, workers,
                   handed, uploaded, last_listing, batch, prev_batch, call, peer>>

\* submit_one_task: the input is uploaded and backend.submit_task raised.
SubmitBackendRaises ==
    /\ pc = "submit"
    /\ tasks_iter # <<>>
    /\ ~IsReused(TaskName, completed_tasks)
    /\ tasks_iter' = Tail(tasks_iter)
    /\ pulled_tasks' = Append(pulled_tasks, Head(tasks_iter))
    /\ store' = PutBody(store, TaskInput, dump(Head(tasks_iter)), 0)
    /\ uploaded' = Append(uploaded, TaskName)
    /\ Abort("SubmissionFailed")
    /\ UNCHANGED <<jobConfig, resultsVars, submitted_tasks, reused_tasks,
                   completed_tasks, running_tasks, tasks_to_submit, workers, handed,
                   last_listing, batch, prev_batch, call, peer>>

\* submit_one_task: the task is with the backend and the listing of
\* status_dict() raised after its retries, before the append.
SubmitStatusRaises ==
    /\ pc = "submit"
    /\ tasks_iter # <<>>
    /\ ~IsReused(TaskName, completed_tasks)
    /\ tasks_iter' = Tail(tasks_iter)
    /\ pulled_tasks' = Append(pulled_tasks, Head(tasks_iter))
    /\ store' = PutBody(store, TaskInput, dump(Head(tasks_iter)), 0)
    /\ uploaded' = Append(uploaded, TaskName)
    /\ workers' = workers \cup {<<TaskName, TaskInput, TaskOutput>>}
    /\ handed' = Append(handed, <<TaskName, TaskInput, TaskOutput>>)
    /\ Abort("StorageUnavailable")
    /\ UNCHANGED <<jobConfig, resultsVars, submitted_tasks, reused_tasks,
                   completed_tasks, running_tasks, tasks_to_submit, last_listing,
                   batch, prev_batch, call, peer>>

\* wait, the inner loop: publish the status, list, return when nothing is
\* running, else sleep and list again.
DrainPoll ==
    /\ pc = "drain"
    /\ LET listing == JobListing(store, cache_key)
           running == get_running_tasks(submitted_tasks, CompletedOf(listing))
       IN /\ last_listing' = listing
          /\ running_tasks' = running
          /\ pc' = IF running = {} THEN "done" ELSE "drain"
    /\ prev_batch' = batch
    /\ batch' = 0
    /\ UNCHANGED <<jobConfig, resultsVars, tasks_iter, submitted_tasks, reused_tasks,
                   completed_tasks, tasks_to_submit, err, store, workers,
                   pulled_tasks, handed, uploaded, call, peer>>

\* wait, the inner loop: a list_contents raised after its retries.
DrainRaises ==
    /\ pc = "drain"
    /\ Abort("StorageUnavailable")
    /\ UNCHANGED <<jobConfig, resultsVars, tasks_iter, submitted_tasks, reused_tasks,
                   completed_tasks, running_tasks, tasks_to_submit, store, workers,
                   pulled_tasks, handed, uploaded, last_listing, batch, prev_batch,
                   call, peer>>

waitVars == <<tasks_iter, submitted_tasks, reused_tasks, pc, completed_tasks,
              running_tasks, tasks_to_submit, pulled_tasks, handed, uploaded,
              last_listing, batch, prev_batch>>

ResultFile(i) == storage_path(task_result_name(ResultsOrder(submitted_tasks)[i]))

\* results() is called once before wait() and once after it; this is the first
\* next() of the generator: the check passes.
ResultsStart ==
    /\ pc \in {"created", "done", "failed"}
    /\ rpc = "none"
    /\ get_running_tasks(submitted_tasks, CompletedOf(JobListing(store, cache_key))) = {}
    /\ rpc' = "iter"
    /\ ridx' = 1
    /\ yielded' = <<>>
    /\ UNCHANGED <<jobConfig, waitVars, err, store, workers, call, peer>>

\* results(), the first next(): "raise RuntimeError("Not all tasks have
\* completed")".
ResultsNotComplete ==
    /\ pc \in {"created", "done", "failed"}
    /\ rpc = "none"
    /\ get_running_tasks(submitted_tasks, CompletedOf(JobListing(store, cache_key))) # {}
    /\ rpc' = "raised"
    /\ err' = "JobNotComplete"
    /\ ridx' = 0
    /\ yielded' = <<>>
    /\ UNCHANGED <<jobConfig, waitVars, store, workers, call, peer>>

\* results(), the first next(): list_contents raised after its retries.
ResultsListRaises ==
    /\ pc \in {"created", "done", "failed"}
    /\ rpc = "none"
    /\ rpc' = "raised"
    /\ err' = "StorageUnavailable"
    /\ ridx' = 0
    /\ yielded' = <<>>
    /\ UNCHANGED <<jobConfig, waitVars, store, workers, call, peer>>

\* results() deleting whatever the cleanup flag says.
AfterYield_AlwaysDeletes(s, url, cl) == DeleteBody(s, url)

\* results(): "if self.cleanup: self.storage.delete(result_file)".
AfterYield(s, url, cl) == IF cl THEN DeleteBody(s, url) ELSE s

\* results(), one turn of the loop: get, load, delete when cleanup, yield.
ResultsNext ==
    /\ rpc = "iter"
    /\ ridx <= Len(submitted_tasks)
    /\ CanSucceed("get", store, ResultFile(ridx), <<>>)
    /\ yielded' = Append(yielded, load(GetBody(store, ResultFile(ridx))))
    /\ store' = AfterYield(store, ResultFile(ridx), cleanup)
    /\ ridx' = ridx + 1
    /\ UNCHANGED <<jobConfig, waitVars, err, rpc, workers, call, peer>>

\* results(): storage.get raised after its retries.
ResultsGetRaises ==
    /\ rpc = "iter"
    /\ ridx <= Len(submitted_tasks)
    /\ rpc' = "raised"
    /\ err' = "StorageUnavailable"
    /\ UNCHANGED <<jobConfig, waitVars, ridx, yielded, store, workers, call, peer>>

\* results(): the value is loaded and storage.delete raised after its
\* retries; the value is not yielded.
ResultsDeleteRaises ==
    /\ rpc = "iter"
    /\ ridx <= Len(submitted_tasks)
    /\ cleanup
    /\ CanSucceed("get", store, ResultFile(ridx), <<>>)
    /\ rpc' = "raised"
    /\ err' = "StorageUnavailable"
    /\ UNCHANGED <<jobConfig, waitVars, ridx, yielded, store, workers, call, peer>>

\* results(): the loop is over; the generator is exhausted.
ResultsFinish ==
    /\ rpc = "iter"
    /\ ridx > Len(submitted_tasks)
    /\ rpc' = "finished"
    /\ UNCHANGED <<jobConfig, waitVars, err, ridx, yielded, store, workers, call, peer>>

\* A worker the backend started runs its task: it reads the input object,
\* writes the result object and deletes the input.
WorkerCompletes(w) ==
    /\ w \in workers
    /\ CanSucceed("get", store, w[2], <<>>)
    /\ store' = DeleteBody(
                    PutBody(store, w[3], dump(Compute(load(GetBody(store, w[2])))), 0),
                    w[2])
    /\ workers' = workers \ {w}
    /\ UNCHANGED <<cache_key, cleanup, max_simultaneous_tasks, run, preexisting,
                   waitVars, resultsVars, err, call, peer>>

WorkerStep == \E w \in workers : WorkerCompletes(w)

\* The steps of wait() that no exception ends.
WaitStep ==
    \/ Poll
    \/ SubmitExhausted
    \/ SubmitReused
    \/ SubmitReal
    \/ DrainPoll

\* The steps of results() that no exception ends.
ResultsStep ==
    \/ ResultsStart
    \/ ResultsNext
    \/ ResultsFinish

Raises ==
    \/ PollRaises
    \/ SubmitPutRaises
    \/ SubmitBackendRaises
    \/ SubmitStatusRaises
    \/ DrainRaises
    \/ ResultsNotComplete
    \/ ResultsListRaises
    \/ ResultsGetRaises
    \/ ResultsDeleteRaises

Next ==
    \/ NewJob
    \/ StartWait
    \/ WaitStep
    \/ ResultsStep
    \/ Raises
    \/ WorkerStep

Spec == Init /\ [][Next]_vars

LiveNext ==
    \/ NewJob
    \/ StartWait
    \/ WaitStep
    \/ ResultsStep
    \/ WorkerStep

\* The polling loop keeps running (it sleeps and polls again) and every
\* worker that was started finishes.
LiveSpec ==
    /\ Init
    /\ [][LiveNext]_vars
    /\ WF_vars(WaitStep)
    /\ WF_vars(WorkerStep)

StorageInit ==
    /\ JobInit("k1", TRUE, 1, 0)
    /\ store = EmptyStore
    /\ workers = {}
    /\ run = 1
    /\ preexisting = {}
    /\ call = NoCall
    /\ peer = NoPeer

StorageSpec == StorageInit /\ [][StorageNext]_vars

\* ------------------------------------------- two Jobs sharing a cache key
\* The second Job is made with the arguments of the first (cache key, storage
\* prefix, task source, backend, max_simultaneous_tasks, cleanup) and runs the
\* same wait() and results(), on the same store and the same backend.
PeerSource == pulled_tasks \o tasks_iter

PeerTaskName == make_task_name(cache_key, NextIndex(peer.submitted, <<>>))

PeerTaskInput == storage_path(task_input_name(PeerTaskName))

PeerTaskOutput == storage_path(task_result_name(PeerTaskName))

PeerResultFile(i) == storage_path(task_result_name(ResultsOrder(peer.submitted)[i]))

firstJob == <<jobConfig, waitVars, resultsVars, err, call>>

\* wait() is called.
PeerStartWait ==
    /\ peer.pc = "created"
    /\ peer' = [peer EXCEPT !.pc = "poll"]
    /\ UNCHANGED <<firstJob, store, workers>>

\* wait, the top of the outer loop.
PeerPoll ==
    /\ peer.pc = "poll"
    /\ LET completed == CompletedOf(JobListing(store, cache_key))
           n == TasksToSubmit(max_simultaneous_tasks, peer.submitted, completed)
       IN peer' = [peer EXCEPT !.completed = completed,
                               !.to_submit = n,
                               !.pc = IF n = 0 THEN "poll" ELSE "submit"]
    /\ UNCHANGED <<firstJob, store, workers>>

\* The next of the batch, or the top of the outer loop.
PeerAfterSubmit(p) ==
    [p EXCEPT !.to_submit = @ - 1,
              !.pc = IF p.to_submit = 1 THEN "poll" ELSE "submit"]

\* submit_one_task: StopIteration.
PeerSubmitExhausted ==
    /\ peer.pc = "submit"
    /\ Len(peer.submitted) = Len(PeerSource)
    /\ peer' = [peer EXCEPT !.pc = "drain"]
    /\ UNCHANGED <<firstJob, store, workers>>

\* submit_one_task: the task's result is listed: reuse it.
PeerSubmitReused ==
    /\ peer.pc = "submit"
    /\ Len(peer.submitted) < Len(PeerSource)
    /\ IsReused(PeerTaskName, peer.completed)
    /\ peer' = PeerAfterSubmit([peer EXCEPT !.submitted = Append(@, PeerTaskName)])
    /\ UNCHANGED <<firstJob, store, workers>>

\* submit_one_task: upload the input, hand the task to the backend, append.
PeerSubmitReal ==
    /\ peer.pc = "submit"
    /\ Len(peer.submitted) < Len(PeerSource)
    /\ ~IsReused(PeerTaskName, peer.completed)
    /\ store' = PutBody(store, PeerTaskInput,
                        dump(PeerSource[Len(peer.submitted) + 1]), 0)
    /\ workers' = workers \cup {<<PeerTaskName, PeerTaskInput, PeerTaskOutput>>}
    /\ peer' = PeerAfterSubmit([peer EXCEPT !.submitted = Append(@, PeerTaskName)])
    /\ UNCHANGED firstJob

\* wait, the inner loop.
PeerDrainPoll ==
    /\ peer.pc = "drain"
    /\ LET running == get_running_tasks(peer.submitted,
                                        CompletedOf(JobListing(store, cache_key)))
       IN peer' = [peer EXCEPT !.pc = IF running = {} THEN "done" ELSE "drain"]
    /\ UNCHANGED <<firstJob, store, workers>>

\* results() after wait() returned, the first next(): the check passes.
PeerResultsStart ==
    /\ peer.pc = "done"
    /\ peer.rpc = "none"
    /\ get_running_tasks(peer.submitted,
                         CompletedOf(JobListing(store, cache_key))) = {}
    /\ peer' = [peer EXCEPT !.rpc = "iter", !.ridx = 1]
    /\ UNCHANGED <<firstJob, store, workers>>

\* results(), the first next(): RuntimeError("Not all tasks have completed").
PeerResultsNotComplete ==
    /\ peer.pc = "done"
    /\ peer.rpc = "none"
    /\ get_running_tasks(peer.submitted,
                         CompletedOf(JobListing(store, cache_key))) # {}
    /\ peer' = [peer EXCEPT !.rpc = "raised"]
    /\ UNCHANGED <<firstJob, store, workers>>

\* results(), one turn of the loop: get, load, delete when cleanup, yield.
PeerResultsNext ==
    /\ peer.rpc = "iter"
    /\ peer.ridx <= Len(peer.submitted)
    /\ CanSucceed("get", store, PeerResultFile(peer.ridx), <<>>)
    /\ peer' = [peer EXCEPT
                  !.yielded = Append(@, load(GetBody(store, PeerResultFile(peer.ridx)))),
                  !.ridx = @ + 1]
    /\ store' = AfterYield(store, PeerResultFile(peer.ridx), cleanup)
    /\ UNCHANGED <<firstJob, workers>>

\* results(): the result object is gone; storage.get raises after its retries.
PeerResultsGetMissing ==
    /\ peer.rpc = "iter"
    /\ peer.ridx <= Len(peer.submitted)
    /\ ~CanSucceed("get", store, PeerResultFile(peer.ridx), <<>>)
    /\ peer' = [peer EXCEPT !.rpc = "raised"]
    /\ UNCHANGED <<firstJob, store, workers>>

\* results(): the loop is over.
PeerResultsFinish ==
    /\ peer.rpc = "iter"
    /\ peer.ridx > Len(peer.submitted)
    /\ peer' = [peer EXCEPT !.rpc = "finished"]
    /\ UNCHANGED <<firstJob, store, workers>>

PeerWaitStep ==
    \/ PeerPoll
    \/ PeerSubmitExhausted
    \/ PeerSubmitReused
    \/ PeerSubmitReal
    \/ PeerDrainPoll

PeerResultsStep ==
    \/ PeerResultsStart
    \/ PeerResultsNotComplete
    \/ PeerResultsNext
    \/ PeerResultsGetMissing
    \/ PeerResultsFinish

\* results() of the first Job: the result object is gone; storage.get raises
\* after its retries.
ResultsGetMissing ==
    /\ rpc = "iter"
    /\ ridx <= Len(submitted_tasks)
    /\ ~CanSucceed("get", store, ResultFile(ridx), <<>>)
    /\ ResultsGetRaises

ShareInit ==
    /\ \E key \in CacheKeys, cl \in BOOLEAN, m \in 1..MaxSimul,
          n \in 1..MaxShareTasks :
          JobInit(key, cl, m, n)
    /\ store = EmptyStore
    /\ workers = {}
    /\ run = 1
    /\ preexisting = {}
    /\ call = NoCall
    /\ peer = [NoPeer EXCEPT !.pc = "created"]

ShareNext ==
    \/ StartWait
    \/ WaitStep
    \/ ResultsStep
    \/ ResultsNotComplete
    \/ ResultsGetMissing
    \/ WorkerStep
    \/ PeerStartWait
    \/ PeerWaitStep
    \/ PeerResultsStep

\* No storage call fails for good; both polling loops keep running and every
\* worker that was started finishes.
ShareSpec ==
    /\ ShareInit
    /\ [][ShareNext]_vars
    /\ WF_vars(WaitStep)
    /\ WF_vars(PeerWaitStep)
    /\ WF_vars(WorkerStep)

\* ------------------------------------------------------------- the claims

\* The names of all the tasks of the job's task source.
AllTaskNames ==
    {make_task_name(cache_key, i - 1) : i \in 1..(Len(pulled_tasks) + Len(tasks_iter))}

\* The result object of a task is in the store.
HasResult(task_name) ==
    ObjectOf(storage_path(task_result_name(task_name))) \in DOMAIN store

\* C1: the n-th value results() yields is the result of the n-th task pulled
\* from the task source, whatever the order the outputs appeared in and
\* whichever tasks were reused.
C1_OrderPreserved ==
    \A n \in 1..Len(yielded) :
        /\ n <= Len(pulled_tasks)
        /\ yielded[n] = Compute(pulled_tasks[n])

C1_Witness ==
    /\ Len(yielded) = MaxTasks
    /\ reused_tasks # <<>>
    /\ Len(reused_tasks) < Len(submitted_tasks)

\* C2: a run that finds the result objects of all its tasks in the store
\* uploads no input, hands no task to the backend, and ends with reused equal
\* to submitted, all tasks pulled.
C2_FullReuse ==
    (run > 1 /\ AllTaskNames \subseteq preexisting) =>
        /\ uploaded = <<>>
        /\ handed = <<>>
        /\ pc = "done" => /\ reused_tasks = submitted_tasks
                          /\ Len(submitted_tasks) = Len(pulled_tasks)
                          /\ tasks_iter = <<>>

C2_Witness ==
    /\ run = 2
    /\ AllTaskNames \subseteq preexisting
    /\ pc = "done"
    /\ Len(submitted_tasks) = MaxTasks
    /\ reused_tasks = submitted_tasks

\* C3: at every poll of wait() the running tasks number at most
\* max_simultaneous_tasks plus the tasks submitted in the batch since the
\* poll before.
C3_SoftBound ==
    Cardinality(running_tasks) <= max_simultaneous_tasks + prev_batch

C3_Witness ==
    /\ max_simultaneous_tasks = 2
    /\ Cardinality(running_tasks) = 2
    /\ prev_batch >= 1
    /\ pc = "poll"

\* C4: when wait() has returned, the task source is exhausted and the last
\* listing wait() took holds the result object of every submitted task.
C4_DoneMeansComplete ==
    pc = "done" =>
        /\ tasks_iter = <<>>
        /\ \A i \in 1..Len(submitted_tasks) :
              task_result_name(submitted_tasks[i]) \in last_listing

C4_Witness ==
    /\ pc = "done"
    /\ Len(submitted_tasks) = MaxTasks
    /\ Len(handed) >= 2

\* C5: with storage calls and submissions that succeed and workers that
\* finish, a wait() that was called returns, through its inner (draining)
\* loop, with every pulled task in submitted.
C5_WaitReturns ==
    /\ (pc = "poll") ~> (/\ pc = "done"
                         /\ tasks_iter = <<>>
                         /\ Len(submitted_tasks) = Len(pulled_tasks))
    /\ [][pc' = "done" => pc \in {"drain", "done"}]_vars

C5_Witness ==
    /\ pc = "done"
    /\ Len(pulled_tasks) = MaxTasks
    /\ Len(handed) = MaxTasks
    /\ max_simultaneous_tasks = 2

\* C6: results() asked for while a submitted task has no result object raises
\* (the not-complete error, or the storage error when the listing itself could
\* not be had), yields nothing and leaves the store as it is.
C6_NotCompleteRaises ==
    [][(/\ rpc = "none"
        /\ rpc' # "none"
        /\ \E i \in 1..Len(submitted_tasks) : ~HasResult(submitted_tasks[i]))
       => (/\ rpc' = "raised"
           /\ err' \in {"JobNotComplete", "StorageUnavailable"}
           /\ yielded' = <<>>
           /\ store' = store)]_vars

C6_Witness ==
    /\ rpc = "raised"
    /\ err = "JobNotComplete"
    /\ pc = "failed"
    /\ \E i \in 1..Len(submitted_tasks) : ~HasResult(submitted_tasks[i])

\* C7 (as claimed): results() yields values only after wait() returned (Done).
C7_NoPartialResults ==
    Len(yielded) > 0 => pc = "done"

\* C8 (as claimed): a storage call that raises made exactly
\* RETRIES_BEFORE_FAILURE attempts.
C8_RaisesAfterBudget ==
    call.phase = "raised" => call.attempts = RETRIES_BEFORE_FAILURE

\* C8 (amended): a storage call that raises made exactly
\* RETRIES_BEFORE_FAILURE + 1 attempts, the first and RETRIES_BEFORE_FAILURE
\* retries, and every one of them failed.
C8_RaisesAfterBudgetPlusOne ==
    call.phase = "raised" =>
        /\ call.attempts = RETRIES_BEFORE_FAILURE + 1
        /\ call.error_num = call.attempts

C8_Witness ==
    /\ call.phase = "raised"
    /\ call.op = "put"
    /\ CanSucceed(call.op, store, call.url, call.url2)

\* C9: a call whose attempts failed fewer than RETRIES_BEFORE_FAILURE times
\* does not raise, and a call that returns returns what its last attempt, run
\* from scratch, did: the whole of the bytes put, the bytes of the object got,
\* the listing of the store as it is.
C9_TransientInvisible ==
    /\ call.phase = "raised" => call.error_num >= RETRIES_BEFORE_FAILURE
    /\ call.phase = "returned" =>
          /\ call.attempts = call.error_num + 1
          /\ call.op = "put" => store[ObjectOf(call.url)] = call.data
          /\ call.op = "get" => call.result = store[ObjectOf(call.url)]
          /\ call.op = "list_contents" => call.result = ListBody(store, call.url)
          /\ call.op = "delete" => ObjectOf(call.url) \notin DOMAIN store

C9_Witness ==
    /\ call.phase = "returned"
    /\ call.op = "put"
    /\ call.error_num = RETRIES_BEFORE_FAILURE - 1
    /\ Len(call.data) = 2

\* C10 (as claimed): a call with a url that does not start with gs:// raises
\* at its first attempt, without a retry or a sleep.
C10_MalformedFailsFast ==
    (call.op # "none" /\ ~IsGsUrl(call.url) /\ call.attempts >= 1) =>
        /\ call.phase = "raised"
        /\ call.attempts = 1
        /\ call.slept = 0

\* C11 (as claimed): a task taken from the task source is recorded in
\* submitted_tasks; Job holds no task aside for a later submission, so the
\* number of tasks pulled equals len(submitted_tasks), also after the input
\* upload or Backend.submit_task raised.
C11_SourceNotPartlyConsumed ==
    Len(pulled_tasks) = Len(submitted_tasks)

\* C12 (as claimed): when move(src, dst), src and dst different objects and
\* src holding an object, returns, src is gone, dst is listed, and dst holds
\* the bytes src held.
C12_MoveMoves ==
    (/\ call.phase = "returned"
     /\ call.op = "move"
     /\ ObjectOf(call.url) # ObjectOf(call.url2)) =>
        /\ ObjectOf(call.url)[2] \notin ListBody(store, call.url)
        /\ ObjectOf(call.url2)[2] \in ListBody(store, call.url2)
        /\ BytesAt(store, call.url2) = call.orig

\* The prefixes of a url that name a bucket: the bucket alone, the bucket and
\* "/", and so on up to the url itself.
UrlPrefixes(url) == {SubSeq(url, 1, k) : k \in 2..Len(url)}

\* The url of an object.
UrlOf(o) == <<"gs://">> \o o[1] \o <<"/">> \o o[2]

\* C13: put, list, get, delete round trip.  When put(path, bytes) has
\* returned, a listing of the path and of each of its prefixes includes the
\* object's name; as long as the object is not deleted or moved over, it holds
\* exactly the bytes put, a get of it returns exactly them and a listing whose
\* prefix covers it includes it; when delete(path) has returned, no listing of
\* the path or a prefix of it includes the name.
C13_RoundTrip ==
    /\ \A o \in DOMAIN call.written :
          /\ o \in DOMAIN store
          /\ store[o] = call.written[o]
    /\ (call.phase = "returned" /\ call.op = "put") =>
          /\ ObjectOf(call.url) \in DOMAIN call.written
          /\ call.written[ObjectOf(call.url)] = call.data
          /\ \A p \in UrlPrefixes(call.url) :
                ObjectOf(call.url)[2] \in ListBody(store, p)
    /\ (call.phase = "returned" /\ call.op = "get"
            /\ ObjectOf(call.url) \in DOMAIN call.written) =>
          call.result = call.written[ObjectOf(call.url)]
    /\ (call.phase = "returned" /\ call.op = "list_contents") =>
          \A o \in DOMAIN call.written :
              call.url \in UrlPrefixes(UrlOf(o)) => o[2] \in call.result
    /\ (call.phase = "returned" /\ call.op = "delete") =>
          \A p \in UrlPrefixes(call.url) :
              ObjectOf(call.url)[2] \notin ListBody(store, p)

\* A listing by the bucket alone returned after a put of two bytes, and the
\* object put is in it.
C13_Witness ==
    /\ call.phase = "returned"
    /\ call.op = "list_contents"
    /\ Len(call.url) = 2
    /\ \E o \in DOMAIN call.written :
          /\ Len(call.written[o]) = 2
          /\ o[2] \in call.result

\* b^1 + ... + b^n
RECURSIVE SumPow(_, _)
SumPow(b, n) == IF n = 0 THEN 0 ELSE Pow(b, n) + SumPow(b, n - 1)

\* C15: a call has slept FIRST_RETRY_SLEEP^1 + ... + FIRST_RETRY_SLEEP^n after
\* its n-th failure, n up to the budget RETRIES_BEFORE_FAILURE, so the sleep
\* after the n-th failure is FIRST_RETRY_SLEEP^n; a call that raised slept the
\* sum up to the budget and nothing after its last failure.
C15_BackoffSchedule ==
    /\ (call.op # "none" /\ call.error_num <= RETRIES_BEFORE_FAILURE) =>
          call.slept = SumPow(FIRST_RETRY_SLEEP, call.error_num)
    /\ call.phase = "raised" =>
          /\ call.error_num = RETRIES_BEFORE_FAILURE + 1
          /\ call.slept = SumPow(FIRST_RETRY_SLEEP, RETRIES_BEFORE_FAILURE)

C15_Witness ==
    /\ call.phase = "raised"
    /\ call.op = "get"
    /\ call.slept = 8190

\* C20 (as claimed): while and after move(src, dst) runs, src and dst
\* different objects and src holding an object when it began, the bytes src
\* held are at src or at dst, and at both when the process died between the
\* copy and the delete.
C20_MoveKeepsData ==
    (/\ call.op = "move"
     /\ UnpacksToTwo(call.url) /\ UnpacksToTwo(call.url2)
     /\ ObjectOf(call.url) # ObjectOf(call.url2)
     /\ call.orig # <<>>) =>
        /\ \/ BytesAt(store, call.url) = call.orig
           \/ BytesAt(store, call.url2) = call.orig
        /\ call.phase = "crashed" =>
              /\ BytesAt(store, call.url) = call.orig
              /\ BytesAt(store, call.url2) = call.orig

\* How many entries of the sequence s satisfy the test: the positions.
Occurrences(s, x) == {j \in 1..Len(s) : s[j] = x}

\* The positions of handed at which task_name was given to the backend.
HandedTimes(task_name) == {j \in 1..Len(handed) : handed[j][1] = task_name}

\* C16 (as claimed): every task pulled from the task source has its name in
\* submitted_tasks; a task recorded as reused was neither uploaded nor handed
\* to the backend, any other was uploaded and handed to the backend exactly
\* once; reused_tasks is a subset of submitted_tasks.
C16_EveryPulledTaskRecorded ==
    /\ Range(reused_tasks) \subseteq Range(submitted_tasks)
    /\ \A i \in 1..Len(pulled_tasks) :
          LET task_name == make_task_name(cache_key, i - 1) IN
          /\ i <= Len(submitted_tasks)
          /\ submitted_tasks[i] = task_name
          /\ IF task_name \in Range(reused_tasks)
             THEN /\ Occurrences(uploaded, task_name) = {}
                  /\ HandedTimes(task_name) = {}
             ELSE /\ Cardinality(Occurrences(uploaded, task_name)) = 1
                  /\ Cardinality(HandedTimes(task_name)) = 1

\* C17: within a run the i-th entry of submitted_tasks (from 0) is the name
\* made of the cache key and i, the entry of the i-th task pulled, reused or
\* not; so no name is in submitted_tasks twice, and submitted_tasks grows by
\* one entry at a time, each time with one task pulled.
C17_NamesFollowPullOrder ==
    /\ [](\A i \in 1..Len(submitted_tasks) :
            /\ submitted_tasks[i] = make_task_name(cache_key, i - 1)
            /\ i <= Len(pulled_tasks)
            /\ Occurrences(submitted_tasks, submitted_tasks[i]) = {i})
    /\ [][\/ Len(submitted_tasks') = Len(submitted_tasks)
          \/ /\ Len(submitted_tasks') = Len(submitted_tasks) + 1
             /\ Len(pulled_tasks') = Len(pulled_tasks) + 1
             /\ SubSeq(submitted_tasks', 1, Len(submitted_tasks)) = submitted_tasks
          \/ /\ run' = run + 1
             /\ submitted_tasks' = <<>>]_vars

\* All tasks are pulled, some reused and some not, the last one reused.
C17_Witness ==
    /\ Len(submitted_tasks) = MaxTasks
    /\ submitted_tasks[MaxTasks] \in Range(reused_tasks)
    /\ submitted_tasks[1] \notin Range(reused_tasks)

\* C18: each turn of the loop of results() yields the value of the object it
\* read and, with cleanup set, removes exactly that object before the next is
\* read, leaving every other object as it is; the objects of the entries not
\* yet reached are in place; with cleanup unset no step of results() changes
\* the store.  So in a run that completed, no worker of an earlier run being
\* left to write again, the objects of the entries yielded are gone, and once
\* all are yielded no result object of the job remains.
C18_CleanupFrame ==
    /\ [][(rpc = "iter" /\ ridx' = ridx + 1) =>
            /\ yielded' = Append(yielded, load(store[ObjectOf(ResultFile(ridx))]))
            /\ store' = IF cleanup
                        THEN StoreRemove(store, ObjectOf(ResultFile(ridx)))
                        ELSE store]_vars
    /\ [][(~cleanup /\ <<rpc, ridx, yielded>>' # <<rpc, ridx, yielded>>) =>
            store' = store]_vars
    /\ [](rpc \in {"iter", "finished"} =>
            /\ ridx = Len(yielded) + 1
            /\ \A i \in 1..Len(submitted_tasks) :
                  (~cleanup \/ i >= ridx) =>
                      /\ HasResult(submitted_tasks[i])
                      /\ load(store[ObjectOf(ResultFile(i))]) = Compute(pulled_tasks[i]))
    /\ []((rpc \in {"iter", "finished"} /\ pc = "done" /\ run = 1 /\ cleanup) =>
            /\ \A i \in 1..Len(submitted_tasks) :
                  i < ridx => ~HasResult(submitted_tasks[i])
            /\ rpc = "finished" => JobListing(store, cache_key) = {})

\* results() with cleanup set has yielded one value of several and deleted
\* its object, the others still in place.
C18_Witness ==
    /\ cleanup
    /\ pc = "done"
    /\ run = 1
    /\ rpc = "iter"
    /\ ridx = 2
    /\ Len(submitted_tasks) = MaxTasks
    /\ ~HasResult(submitted_tasks[1])
    /\ HasResult(submitted_tasks[2])

\* ------------------------------------------------ local_process_backend.py
\* run_task_args: the command line of the worker.
run_task_args(task_input, task_output, delete_input) ==
    <<"_kubeface-run-task", task_input, task_output>>
        \o (IF delete_input THEN <<"--delete-input">> ELSE <<>>)

\* The parameters of LocalProcessBackend.submit_task after self.
SubmitTaskParams == <<"task_input", "task_output">>

\* LocalProcessBackend.submit_task called with the positional arguments
\* args: a call that does not bind to the parameters raises TypeError before
\* the body runs; otherwise one Popen of run_task_args, not waited for.
LocalProcessBackend_submit_task(args, delete_input) ==
    IF Len(args) # Len(SubmitTaskParams)
    THEN [raised |-> TRUE, launched |-> <<>>]
    ELSE [raised |-> FALSE,
          launched |-> <<run_task_args(args[1], args[2], delete_input)>>]

\* C19 (as claimed): each call Job makes of backend.submit_task, the backend
\* being a LocalProcessBackend, returns and launches exactly one worker whose
\* positional arguments are the task's input path and then its output path.
C19_LocalBackendLaunchesOne ==
    \A j \in 1..Len(handed) : \A delete_input \in BOOLEAN :
        LET r == LocalProcessBackend_submit_task(handed[j], delete_input) IN
        /\ ~r.raised
        /\ Len(r.launched) = 1
        /\ r.launched[1][2] = handed[j][2]
        /\ r.launched[1][3] = handed[j][3]

\* The results of all the tasks of the task source, in its order.
FullResults == [i \in 1..Len(PeerSource) |-> Compute(PeerSource[i])]

\* C14 (as claimed): two Jobs with the same cache key, storage prefix and
\* task source, both with the default cleanup=True: results() of a Job whose
\* wait() returned does not raise.
C14_SharedKeySafe ==
    cleanup =>
        /\ pc = "done" => rpc # "raised"
        /\ peer.pc = "done" => peer.rpc # "raised"

\* C14 (amended): two Jobs with the same cache key, storage prefix and task
\* source, both with cleanup unset: each wait() returns, no results() raises,
\* and each results() that is consumed yields the results of all the tasks in
\* the order of the task source.
C14_SharedKeyNoCleanup ==
    /\ [](~cleanup =>
            /\ rpc # "raised"
            /\ peer.rpc # "raised"
            /\ (pc = "done" /\ rpc = "finished") => yielded = FullResults
            /\ peer.rpc = "finished" => peer.yielded = FullResults)
    /\ (~cleanup /\ pc = "poll") ~> (pc = "done")
    /\ (~cleanup /\ peer.pc = "poll") ~> (peer.pc = "done")

\* Both Jobs are done and have yielded all the results, the first having
\* reused a result and started a task itself.
C14_Witness ==
    /\ ~cleanup
    /\ pc = "done" /\ rpc = "finished"
    /\ peer.pc = "done" /\ peer.rpc = "finished"
    /\ Len(yielded) = MaxShareTasks
    /\ reused_tasks # <<>>
    /\ handed # <<>>
=============================================================================
